---- MODULE Spec2Model ----
(***************************************************************************)
(* Model of the synchronization engine of rubellum/jjj: TimerScheduler,    *)
(* AutoCommitService (change debouncer), AutoPullService (remote poller),  *)
(* SyncEngine.performFullSync and the manualSync command.                  *)
(*                                                                         *)
(* The program is single-threaded JavaScript: code between two awaits runs *)
(* atomically, so every action below is one such segment (from a timer     *)
(* fire, a command, a save event or the completion of an awaited VCS call  *)
(* up to the next awaited VCS call or the end of the handler).             *)
(* Time is counted in ticks of RETRY_DELAY (30 s); the three timer delays  *)
(* of the program are multiples of it.  A VCS call takes an arbitrary time *)
(* and its completion interleaves freely with ticks and other events.      *)
(***************************************************************************)
EXTENDS Integers, FiniteSets, Sequences, Bags

(* ---------------- program constants (utils/constants) ------------------ *)
DEBOUNCE_DELAY == 60000
DEFAULT_SYNC_INTERVAL_MIN == 30000
DEFAULT_SYNC_INTERVAL_MAX == 90000
MAX_RETRY_COUNT == 3
RETRY_DELAY == 30000

(* ---------------- bounds of the model ---------------------------------- *)
\* concurrent manualSync command invocations
MaxManual == 2
\* timeouts that can be pending at once
MaxHandles == 3

\* one tick of model time
TickMs == RETRY_DELAY
DebounceTicks == DEBOUNCE_DELAY \div TickMs
RetryTicks == RETRY_DELAY \div TickMs
MinPullTicks == DEFAULT_SYNC_INTERVAL_MIN \div TickMs
MaxPullTicks == DEFAULT_SYNC_INTERVAL_MAX \div TickMs

\* file ids delivered by the file-save observer
Files == {"a.txt", "b.txt"}

(* ---------------- types/index.ts --------------------------------------- *)
\* JJErrorType
ErrorTypes == {"NETWORK_ERROR", "REMOTE_CHANGED", "CONFLICT", "AUTH_ERROR",
               "JJ_NOT_FOUND", "UNKNOWN"}
\* outcome of an awaited JJManager call that may throw
Results == {"ok"} \cup ErrorTypes

\* The literals handed to StatusBarManager.setState.  SyncEngine uses the
\* identifiers of types/index.ts; AutoCommitService, AutoPullService and the
\* catch block of SyncEngine.initialize use the Japanese labels of the older
\* declaration of SyncState, written here in ASCII with the prefix "ja:":
\*   "ja:notApplicable" = '対象外'      "ja:enabled" = '有効'
\*   "ja:offline" = 'オフライン'        "ja:syncing" = '同期中'
\*   "ja:syncCompleteWithConflicts" = '同期完了（コンフリクトあり）'
SyncStateLiterals ==
  {"notApplicable", "enabled", "offline", "syncing", "syncComplete",
   "syncCompleteWithConflicts", "localOnly",
   "ja:notApplicable", "ja:enabled", "ja:offline", "ja:syncing",
   "ja:syncCompleteWithConflicts"}

\* The member of SyncStatus (spec section 3) a literal stands for.
SyncStatusOf(s) ==
  CASE s \in {"notApplicable", "ja:notApplicable"} -> "Inapplicable"
    [] s \in {"enabled", "ja:enabled"} -> "Enabled"
    [] s \in {"offline", "ja:offline"} -> "Offline"
    [] s \in {"syncing", "ja:syncing"} -> "Syncing"
    [] s = "syncComplete" -> "SyncComplete"
    [] s \in {"syncCompleteWithConflicts", "ja:syncCompleteWithConflicts"}
         -> "SyncCompleteWithConflicts"
    [] s = "localOnly" -> "LocalOnly"

(* ---------------- timer keys ------------------------------------------- *)
AUTO_COMMIT == "auto-commit"
AUTO_COMMIT_RETRY == "auto-commit-retry"
AUTO_PULL == "auto-pull"
Keys == {AUTO_COMMIT, AUTO_COMMIT_RETRY, AUTO_PULL}
OnceKeys == {AUTO_COMMIT, AUTO_COMMIT_RETRY}

\* TimerScheduler.timers holds for a key: no entry ("none"), a Timeout object
\* that has already fired ("stale"), or the pending timeout of the key ("live")
EntryStates == {"none", "stale", "live"}

VARIABLES
  activated,      \* extension.activate has wired the services and commands
  autoSyncEnabled,\* workspace configuration jjj.autoSyncEnabled
  status,         \* StatusBarManager.currentState
  timers,         \* TimerScheduler.timers : key -> "none" | "stale" | "live"
  timeouts,       \* the runtime's pending setTimeout timeouts: a bag of Timeout
  paused,         \* TimerScheduler.paused
  syncLock,       \* SyncEngine.syncLock
  changeQueue,    \* AutoCommitService.changeQueue
  isProcessing,   \* AutoCommitService.isProcessing
  retryCount,     \* AutoCommitService.retryCount
  pq,             \* the processQueue invocation in flight: [pc, key]
  tp,             \* the AutoPullService.pull started by the 'auto-pull' timer
  ms,             \* manualSync invocations: i -> pc
  obs,            \* observations of the run (history only, never read by the program)
  message,        \* parseJJError: the text of the failure it is given
  jjError,        \* parseJJError: the JJError it returned
  content,        \* ConflictDetector: the file content, as split('\n') gives it
  conflicts,      \* ConflictDetector: what detectConflictsInContent returned
  hasMarkers,     \* ConflictDetector: what hasConflictMarkers returned
  called          \* the pure functions that have returned

\* the arguments and results of the pure functions
pureVars == <<message, jjError, content, conflicts, hasMarkers, called>>

vars == <<activated, autoSyncEnabled, status, timers, timeouts, paused, syncLock,
          changeQueue, isProcessing, retryCount, pq, tp, ms, obs, pureVars>>

(* ======================= TimerScheduler ================================ *)
\* A pending timeout of the runtime: the key whose callback it runs, the ticks
\* left, and whether it is the Timeout object the Map holds for that key.  The
\* pending timeouts form a bag: two timeouts of one key that are due at the same
\* time and are both unknown to the Map behave alike.
Timeout(k, rem, mapped) == [key |-> k, rem |-> rem, mapped |-> mapped]

\* The scheduler's Map together with the runtime's pending timeouts.
Sched == [timers |-> timers, timeouts |-> timeouts]

\* the pending timeouts of S the Map holds under id
Held(S, id) == {t \in BagToSet(S.timeouts) : t.key = id /\ t.mapped}
Remove(B, ts) == B (-) SetToBag(ts)

\* TimerScheduler.clearTimer: clearTimeout on the entry's Timeout, delete the entry
clearTimer(S, id) ==
  IF S.timers[id] = "none" THEN S
  ELSE [timers |-> [S.timers EXCEPT ![id] = "none"],
        timeouts |-> Remove(S.timeouts, Held(S, id))]

\* setTimeout(..., delay) followed by this.timers.set(id, timerId)
setTimer(S, id, delay) ==
  [timers |-> [S.timers EXCEPT ![id] = "live"],
   timeouts |-> S.timeouts (+) SetToBag({Timeout(id, delay, TRUE)})]

\* TimerScheduler.scheduleOnce
scheduleOnce(S, id, delayTicks) == setTimer(clearTimer(S, id), id, delayTicks)

\* a recurring timer armed with no delay at all
rearmAtOnce(S, id, interval) == setTimer(clearTimer(S, id), id, 0)
\* TimerScheduler.scheduleRandomInterval, interval = the value getRandomInterval drew
scheduleRandomInterval(S, id, interval) == setTimer(clearTimer(S, id), id, interval)

\* the values getRandomInterval(minMs, maxMs) can return, in ticks
RandomIntervals == MinPullTicks..MaxPullTicks

\* a clearAll that empties the Map and leaves the timeouts pending
clearAllMapOnly(S) ==
  LET M == {t \in BagToSet(S.timeouts) : t.mapped}
  IN [timers |-> [k \in Keys |-> "none"],
      timeouts |-> Remove(S.timeouts, M)
                     (+) SetToBag({[t EXCEPT !.mapped = FALSE] : t \in M})]
\* TimerScheduler.clearAll: clearTimeout on every entry of the Map, then clear the Map
clearAll(S) ==
  [timers |-> [k \in Keys |-> "none"],
   timeouts |-> Remove(S.timeouts, {t \in BagToSet(S.timeouts) : t.mapped})]

\* the runtime takes the due timeout t out of its table; an entry of the Map that
\* holds it keeps the (now fired) Timeout object
Fired(S, t) ==
  [timers |-> IF t.mapped THEN [S.timers EXCEPT ![t.key] = "stale"] ELSE S.timers,
   timeouts |-> Remove(S.timeouts, {t})]

\* this.timers.delete(id) at the end of the one-shot wrapper: the entry goes,
\* a pending timeout it held stays pending, unknown to the Map
deleteEntry(S, id) ==
  [timers |-> [S.timers EXCEPT ![id] = "none"],
   timeouts |-> Remove(S.timeouts, Held(S, id))
                  (+) SetToBag({[t EXCEPT !.mapped = FALSE] : t \in Held(S, id)})]

\* TimerScheduler.getActiveTimerIds
getActiveTimerIds == {k \in Keys : timers[k] # "none"}

\* pending timeouts whose callback belongs to key k
PendingFor(k) == {t \in BagToSet(timeouts) : t.key = k}
Due(t) == BagIn(t, timeouts) /\ t.rem = 0
\* the runtime can take one more pending timeout
HasRoom(S) == BagCardinality(S.timeouts) < MaxHandles
\* every pending timeout one tick closer to its deadline
Elapse(B) ==
  LET later(t) == [t EXCEPT !.rem = @ - 1]
      earlier(t) == [t EXCEPT !.rem = @ + 1]
  IN [t \in {later(u) : u \in BagToSet(B)} |-> CopiesIn(earlier(t), B)]

(* ======================= observers ===================================== *)
\* obs records what the properties speak about and the program does not store:
\*   run    the processQueue invocation in flight, or the last one that returned:
\*          what hasUncommittedChanges reported, how its first commit call
\*          settled, the commit, push and pull calls it made, how many of them
\*          succeeded, whether it has returned, and the branch it returned
\*          through ("retry" and "giveUp" send the network notification,
\*          "abandoned" the generic error notification)
\*   burst  the current burst of accepted queueChange calls: ticks since its last
\*          call (capped one above the quiet period), the file ids queued in it,
\*          whether the handler was invoked since the last call, and whether the
\*          burst is undisturbed (auto-sync enabled and the scheduler unpaused
\*          throughout, no timer cancelled from outside, no call exactly one
\*          quiet period after the previous one)
\*   cyc    the commit-and-push cycle: open from a quiet-period run until a run
\*          returns without arming a retry; whether a push was tried; the retry
\*          runs; whether every retry was announced with its own number; and
\*          whether the cycle is undisturbed (it began with RetryState 0, every
\*          push failed with NETWORK_ERROR, no commit failed, no change was queued,
\*          no timer was dropped or cancelled, the configuration stayed as it was)
\*   manual how the last manualSync that returned had ended
\*   pull   the 'auto-pull' timeout last armed by the scheduler itself: by whom
\*          ("paused": its wrapper fired while paused, "returned"/"failed"/
\*          "rejected": after a callback that ended so, "noop": after one that
\*          found nothing to reconcile; "run": it started the
\*          callback; "none": armed or cancelled from outside), the delay drawn
\*          for it, the ticks since then, and by whom the one before was armed
\*          ("run" with "none": the callback ended and found the timer cancelled)
\*   watch  the observers that are switched on (fixed by the initial state)
Min(a, b) == IF a < b THEN a ELSE b

RunInit == [changes |-> "none", first |-> "none", commits |-> 0, pushes |-> 0,
            pulls |-> 0, committed |-> 0, pushed |-> 0, returned |-> FALSE,
            outcome |-> ""]
BurstInit == [since |-> DebounceTicks + 1, files |-> {}, started |-> FALSE,
              ok |-> FALSE]
CycInit == [open |-> FALSE, ok |-> FALSE, pushed |-> FALSE, retries |-> 0,
            numbered |-> TRUE]
PullInit == [how |-> "none", prev |-> "none", since |-> 0, delay |-> 0]
ObsInit == [run |-> RunInit, burst |-> BurstInit, cyc |-> CycInit, manual |-> "none",
            pull |-> PullInit, watch |-> {}]

Observers == {"run", "burst", "cyc", "manual", "pull"}

\* obs with the fields of the observers that are switched on replaced by those of o
Observe(o) ==
  [run |-> IF "run" \in obs.watch THEN o.run ELSE obs.run,
   burst |-> IF "burst" \in obs.watch THEN o.burst ELSE obs.burst,
   cyc |-> IF "cyc" \in obs.watch THEN o.cyc ELSE obs.cyc,
   manual |-> IF "manual" \in obs.watch THEN o.manual ELSE obs.manual,
   pull |-> IF "pull" \in obs.watch THEN o.pull ELSE obs.pull,
   watch |-> obs.watch]

\* the circumstances the debounce and retry properties presuppose are disturbed
Disturb(o) ==
  [o EXCEPT !.burst.ok = FALSE, !.cyc.ok = FALSE]

ObsTick ==
  Observe([obs EXCEPT !.burst.since = Min(@ + 1, DebounceTicks + 1),
                      !.pull.since = Min(@ + 1, MaxPullTicks + 1)])

ObsConfig == Observe(Disturb(obs))
ObsStop == Observe([Disturb(obs) EXCEPT !.pull = PullInit])
\* startAutoSync arms the 'auto-pull' timer from outside
ObsStart == Observe([obs EXCEPT !.pull = PullInit])

\* an accepted queueChange(file): it opens a new burst if the handler was invoked
\* since the last call or more than a quiet period has passed
ObsQueueChange(file) ==
  LET new == obs.burst.started \/ obs.burst.since > DebounceTicks
  IN Observe([obs EXCEPT
       !.burst = [since |-> 0,
                  files |-> (IF new THEN {} ELSE @.files) \cup {file},
                  started |-> FALSE,
                  ok |-> (new \/ (@.ok /\ @.since < DebounceTicks)) /\ ~paused],
       !.cyc.ok = FALSE])

\* a timeout of key k fired; how: "paused" (callback skipped), "skipped"
\* (processQueue returned at its guard), "disabled", "run" (an invocation began)
ObsFire(k, how) ==
  LET b == IF k # AUTO_COMMIT THEN obs.burst
           ELSE IF how = "paused" THEN [obs.burst EXCEPT !.ok = FALSE]
           ELSE [obs.burst EXCEPT !.started = TRUE]
      c == obs.cyc
      c2 == IF k = AUTO_PULL THEN c
            ELSE IF k = AUTO_COMMIT /\ how = "run" /\ ~c.open
            THEN [open |-> TRUE, ok |-> retryCount = 0, pushed |-> FALSE,
                  retries |-> 0, numbered |-> TRUE]
            ELSE IF k = AUTO_COMMIT_RETRY /\ how = "run"
            THEN [c EXCEPT !.retries = Min(@ + 1, MAX_RETRY_COUNT + 1)]
            ELSE [c EXCEPT !.ok = FALSE]
  IN Observe([obs EXCEPT !.burst = b, !.cyc = c2,
                         !.run = IF how = "run" THEN RunInit ELSE @])

\* the 'auto-pull' timeout fired: while paused it is armed again with the delay
\* interval, else the callback starts
ObsFirePull(how, interval) ==
  Observe([obs EXCEPT
    !.pull = IF how = "paused"
             THEN [how |-> "paused", prev |-> @.how, since |-> 0, delay |-> interval]
             ELSE [@ EXCEPT !.how = "run", !.prev = obs.pull.how]])

\* the callback of 'auto-pull' ended (how: "returned", "failed", "rejected"); the
\* wrapper armed the timer again with the delay interval, or found it cancelled
ObsPullReturn(how, interval, rearmed) ==
  Observe([obs EXCEPT
    !.pull = IF rearmed
             THEN [how |-> how, prev |-> "run", since |-> 0, delay |-> interval]
             ELSE [PullInit EXCEPT !.prev = "run"]])

\* the awaited call op of processQueue settled with r, leaving the step n
ObsPQ(op, r, n) ==
  LET commitDone == op \in {"commit", "cfCommit"}
      pushDone == op \in {"push", "rcPush", "cfPush"}
      returned == n.pc = "idle"
  IN Observe([obs EXCEPT
       !.run = [changes |-> IF op # "hasChanges" THEN @.changes
                            ELSE IF r THEN "yes" ELSE "no",
                first |-> IF op = "commit" THEN r ELSE @.first,
                commits |-> @.commits + (IF n.pc \in {"commit", "cfCommit"} THEN 1 ELSE 0),
                pushes |-> @.pushes + (IF n.pc \in {"push", "rcPush", "cfPush"} THEN 1 ELSE 0),
                pulls |-> @.pulls + (IF n.pc = "rcFetch" THEN 1 ELSE 0),
                committed |-> @.committed + (IF commitDone /\ r = "ok" THEN 1 ELSE 0),
                pushed |-> @.pushed + (IF pushDone /\ r = "ok" THEN 1 ELSE 0),
                returned |-> returned,
                outcome |-> n.outcome],
       !.cyc = [open |-> @.open /\ ~(returned /\ n.outcome # "retry"),
                ok |-> @.ok /\ ~(commitDone /\ r # "ok")
                            /\ ~(pushDone /\ r # "NETWORK_ERROR"),
                pushed |-> @.pushed \/ pushDone,
                retries |-> @.retries,
                numbered |-> @.numbered
                             /\ (returned /\ n.outcome = "retry"
                                   => n.note = @.retries + 1)]])

\* manualSync i pauses the timers ("start") or returns (how it ended)
ObsManual(i, how) ==
  IF how = "start" THEN Observe(Disturb(obs))
  ELSE Observe([obs EXCEPT !.manual = how])

(* ======================= initial state ================================= *)
PqIdle == [pc |-> "idle", key |-> AUTO_COMMIT]

\* the services as their constructors leave them
Constructed ==
  /\ activated = FALSE
  /\ autoSyncEnabled \in BOOLEAN
  /\ status = "notApplicable"
  /\ timers = [k \in Keys |-> "none"]
  /\ timeouts = EmptyBag
  /\ paused = FALSE
  /\ syncLock = FALSE
  /\ changeQueue = {}
  /\ isProcessing = FALSE
  /\ retryCount = 0
  /\ pq = PqIdle
  /\ tp = "idle"
  /\ ms = [i \in 1..MaxManual |-> "idle"]
  /\ obs \in {[ObsInit EXCEPT !.watch = w] : w \in SUBSET Observers}

\* no pure function has been given an argument
Uncalled ==
  /\ message = << >>
  /\ content = << >>
  /\ jjError = [type |-> "", message |-> << >>]
  /\ conflicts = << >>
  /\ hasMarkers = FALSE
  /\ called = {}

Init ==
  /\ Constructed
  /\ Uncalled

(* ======================= activation ==================================== *)
\* What SyncEngine.initialize finds, and the literal it leaves in the status bar.
\* this.jjManager is assigned before the first check, so activate() wires the
\* services, the file watcher and the commands after every one of these outcomes.
InitOutcomes == {"noTool", "noRepo", "initThrows", "noRemote", "ready"}

\* What the checks of initialize can find: isJJAvailable (tool), detectGitRepo
\* (repo), isJJInitialized and, if it says no, initializeJJ (jj), and
\* checkRemoteConnection (remote).
InitEnvs ==
  [tool : BOOLEAN, repo : BOOLEAN, jj : {"initialized", "initOk", "initThrows"},
   remote : BOOLEAN]
\* the checks initialize runs in the environment e, in their order
initChecks(e) ==
  IF ~e.tool THEN <<"isJJAvailable">>
  ELSE IF ~e.repo THEN <<"isJJAvailable", "detectGitRepo">>
  ELSE IF e.jj = "initThrows"
  THEN <<"isJJAvailable", "detectGitRepo", "isJJInitialized", "initializeJJ">>
  ELSE <<"isJJAvailable", "detectGitRepo", "isJJInitialized">>
         \o (IF e.jj = "initOk" THEN <<"initializeJJ">> ELSE << >>)
         \o <<"checkRemoteConnection">>
\* where initialize ends in the environment e
initOutcome(e) ==
  IF ~e.tool THEN "noTool"
  ELSE IF ~e.repo THEN "noRepo"
  ELSE IF e.jj = "initThrows" THEN "initThrows"
  ELSE IF ~e.remote THEN "noRemote"
  ELSE "ready"

\* an initialize whose catch block reports the state of a repository without
\* remote
initializeLenient(outcome) ==
  CASE outcome = "noTool" -> "notApplicable"
    [] outcome = "noRepo" -> "notApplicable"
    [] outcome = "initThrows" -> "localOnly"
    [] outcome = "noRemote" -> "localOnly"
    [] outcome = "ready" -> "enabled"

initialize(outcome) ==
  CASE outcome = "noTool" -> "notApplicable"
    [] outcome = "noRepo" -> "notApplicable"
    [] outcome = "initThrows" -> "ja:notApplicable"
    [] outcome = "noRemote" -> "localOnly"
    [] outcome = "ready" -> "enabled"

\* extension.activate: initialize() runs before setAutoPullCallback, so the
\* startAutoSync inside initialize finds no callback and arms no timer.
Activate(outcome) ==
  /\ ~activated
  /\ activated' = TRUE
  /\ status' = initialize(outcome)
  /\ obs' = obs
  /\ UNCHANGED <<pureVars, autoSyncEnabled, timers, timeouts, paused, syncLock,
                 changeQueue, isProcessing, retryCount, pq, tp, ms>>

\* The administrative configuration is changed (settings UI, or the
\* config.update of toggleAutoSync).
ConfigChange ==
  /\ activated
  /\ autoSyncEnabled' = ~autoSyncEnabled
  /\ obs' = ObsConfig
  /\ UNCHANGED <<pureVars, activated, status, timers, timeouts, paused, syncLock, changeQueue,
                 isProcessing, retryCount, pq, tp, ms>>

(* ======================= time ========================================== *)
\* One tick passes.  A timeout that is due fires before time moves on.
Tick ==
  /\ activated
  /\ \A t \in BagToSet(timeouts) : t.rem > 0
  /\ timeouts' = Elapse(timeouts)
  /\ obs' = ObsTick
  /\ UNCHANGED <<pureVars, activated, autoSyncEnabled, status, timers, paused, syncLock,
                 changeQueue, isProcessing, retryCount, pq, tp, ms>>

(* ======================= AutoCommitService ============================= *)
\* a queueChange that does not read the setting
queueGateOpen == TRUE
\* queueChange's reading of the setting jjj.autoSyncEnabled
queueGate == autoSyncEnabled

\* AutoCommitService.queueChange, called by the file watcher for a saved file
queueChange(file) ==
  /\ activated
  /\ IF ~queueGate
     THEN UNCHANGED <<changeQueue, timers, timeouts, obs>>
     ELSE /\ HasRoom(clearTimer(Sched, AUTO_COMMIT))
          /\ changeQueue' = changeQueue \cup {file}
          /\ LET S == scheduleOnce(clearTimer(Sched, AUTO_COMMIT), AUTO_COMMIT,
                                   DebounceTicks)
             IN /\ timers' = S.timers
                /\ timeouts' = S.timeouts
          /\ obs' = ObsQueueChange(file)
  /\ UNCHANGED <<pureVars, activated, autoSyncEnabled, status, paused, syncLock, isProcessing,
                 retryCount, pq, tp, ms>>

\* The processQueue invocation moves to pc2 with the given scheduler, status,
\* queue and retry counter.  Reaching "idle" is the return of processQueue: its
\* finally block clears isProcessing and the one-shot wrapper of the timer that
\* started it deletes the entry of its key.
PQSet(pc2, S, st, q, rc) ==
  /\ pq' = IF pc2 = "idle" THEN PqIdle ELSE [pq EXCEPT !.pc = pc2]
  /\ isProcessing' = (pc2 # "idle")
  /\ timers' = IF pc2 = "idle" THEN deleteEntry(S, pq.key).timers ELSE S.timers
  /\ timeouts' = IF pc2 = "idle" THEN deleteEntry(S, pq.key).timeouts ELSE S.timeouts
  /\ status' = st
  /\ changeQueue' = q
  /\ retryCount' = rc
  /\ UNCHANGED <<pureVars, activated, autoSyncEnabled, paused, syncLock, tp, ms>>

\* a one-shot wrapper that does not look at the flag
skipNever == FALSE
\* the one-shot wrapper's test of this.paused when its timeout fires
skipWhenPaused == paused

\* a processQueue that does not look at its flag
inFlightUnguarded == FALSE
\* the first half of the guard of processQueue
inFlightGuard == isProcessing

\* A one-shot timeout of 'auto-commit' or 'auto-commit-retry' fires: the wrapper
\* of scheduleOnce, and processQueue up to its first awaited call.
FireOnce(t) ==
  /\ Due(t)
  /\ t.key \in OnceKeys
  /\ LET k == t.key
         S == Fired(Sched, t)
     IN IF skipWhenPaused
        THEN \* fired while paused: the callback is skipped, the entry stays
             /\ timers' = S.timers /\ timeouts' = S.timeouts
             /\ obs' = ObsFire(k, "paused")
             /\ UNCHANGED <<changeQueue, isProcessing, pq>>
        ELSE IF inFlightGuard \/ changeQueue = {}
        THEN /\ timers' = deleteEntry(S, k).timers /\ timeouts' = deleteEntry(S, k).timeouts
             /\ obs' = ObsFire(k, "skipped")
             /\ UNCHANGED <<changeQueue, isProcessing, pq>>
        ELSE IF ~autoSyncEnabled
        THEN /\ timers' = deleteEntry(S, k).timers /\ timeouts' = deleteEntry(S, k).timeouts
             /\ changeQueue' = {}
             /\ obs' = ObsFire(k, "disabled")
             /\ UNCHANGED <<isProcessing, pq>>
        ELSE /\ timers' = S.timers /\ timeouts' = S.timeouts
             /\ isProcessing' = TRUE
             /\ pq' = [pc |-> "hasChanges", key |-> k]
             /\ obs' = ObsFire(k, "run")
             /\ UNCHANGED changeQueue
  /\ UNCHANGED <<pureVars, activated, autoSyncEnabled, status, paused, syncLock, retryCount,
                 tp, ms>>

\* What a step of processQueue leaves behind: the next pc ("idle" = returned),
\* scheduler, status, queue, retry counter, and for the observer the way the
\* run ended and the notification sent.
Step(pc2, S, st, q, rc, outcome, note) ==
  [pc |-> pc2, S |-> S, st |-> st, q |-> q, rc |-> rc, outcome |-> outcome,
   note |-> note]

\* a handleError that treats every unclassified failure as the end of the
\* retries of a network failure
handleErrorOffline(e) ==
  IF e = "NETWORK_ERROR"
  THEN IF retryCount + 1 <= MAX_RETRY_COUNT
       THEN Step("idle", scheduleOnce(Sched, AUTO_COMMIT_RETRY, RetryTicks), status,
                 changeQueue, retryCount + 1, "retry", retryCount + 1)
       ELSE Step("idle", Sched, "ja:offline", {}, 0, "giveUp", 0)
  ELSE IF e = "REMOTE_CHANGED"
  THEN Step("rcFetch", Sched, status, changeQueue, retryCount, "", 0)
  ELSE IF e = "CONFLICT"
  THEN Step("cfCommit", Sched, status, changeQueue, retryCount, "", 0)
  ELSE Step("idle", Sched, "ja:offline", {}, 0, "giveUp", 0)

\* AutoCommitService.handleError up to its first awaited call
handleError(e) ==
  IF e = "NETWORK_ERROR"
  THEN IF retryCount + 1 <= MAX_RETRY_COUNT
       THEN Step("idle", scheduleOnce(Sched, AUTO_COMMIT_RETRY, RetryTicks), status,
                 changeQueue, retryCount + 1, "retry", retryCount + 1)
       ELSE Step("idle", Sched, "ja:offline", {}, 0, "giveUp", 0)
  ELSE IF e = "REMOTE_CHANGED"
  THEN Step("rcFetch", Sched, status, changeQueue, retryCount, "", 0)
  ELSE IF e = "CONFLICT"
  THEN Step("cfCommit", Sched, status, changeQueue, retryCount, "", 0)
  ELSE Step("idle", Sched, "ja:enabled", {}, 0, "abandoned", 0)

\* handleError can arm the retry timer only if the runtime has a slot for it
CanHandle(e) ==
  (e = "NETWORK_ERROR" /\ retryCount + 1 <= MAX_RETRY_COUNT)
     => HasRoom(clearTimer(Sched, AUTO_COMMIT_RETRY))

\* AutoPullService.handleError: the status it sets
pullHandleError(e) ==
  IF e = "CONFLICT" THEN "ja:syncCompleteWithConflicts" ELSE "ja:offline"

\* a processQueue that forgets changeQueue.clear() on the no-changes path
afterHasChangesKeepsQueue(hasChanges) ==
  IF ~hasChanges
  THEN Step("idle", Sched, status, changeQueue, 0, "noChanges", 0)
  ELSE Step("commit", Sched, "ja:syncing", changeQueue, retryCount, "", 0)

\* processQueue after hasUncommittedChanges() returned
afterHasChanges(hasChanges) ==
  IF ~hasChanges
  THEN Step("idle", Sched, status, {}, 0, "noChanges", 0)
  ELSE Step("commit", Sched, "ja:syncing", changeQueue, retryCount, "", 0)

\* processQueue after commit(message) settled
afterCommit(r) ==
  IF r = "ok" THEN Step("push", Sched, status, changeQueue, retryCount, "", 0)
  ELSE handleError(r)

\* a processQueue that forgets retryCount = 0 after a successful push
afterPushKeepsRetry(r) ==
  IF r = "ok" THEN Step("idle", Sched, "ja:enabled", {}, retryCount, "ok", 0)
  ELSE handleError(r)

\* processQueue after push() settled
afterPush(r) ==
  IF r = "ok" THEN Step("idle", Sched, "ja:enabled", {}, 0, "ok", 0)
  ELSE handleError(r)

\* handleError, REMOTE_CHANGED branch: autoPullService.pull() never throws, so
\* whatever pull did, the push is tried again after it.
rcAfterFetch(r) ==
  IF r = "ok" THEN Step("rcHasRemote", Sched, status, changeQueue, retryCount, "", 0)
  ELSE Step("rcPush", Sched, pullHandleError(r), changeQueue, retryCount, "", 0)

rcAfterHasRemote(behind) ==
  Step(IF behind THEN "rcMerge" ELSE "rcPush", Sched, status, changeQueue,
       retryCount, "", 0)

rcAfterMerge(r) ==
  Step("rcPush", Sched, IF r = "ok" THEN "ja:enabled" ELSE pullHandleError(r),
       changeQueue, retryCount, "", 0)

\* a REMOTE_CHANGED branch that hands a failed second push to handleError again
rcAfterPushHandled(r) ==
  IF r = "ok" THEN Step("idle", Sched, "ja:enabled", {}, 0, "rcOk", 0)
  ELSE handleError(r)

rcAfterPush(r) ==
  IF r = "ok" THEN Step("idle", Sched, "ja:enabled", {}, 0, "rcOk", 0)
  ELSE Step("idle", Sched, "ja:offline", changeQueue, retryCount, "rcFail", 0)

\* handleError, CONFLICT branch
cfAfterCommit(r) ==
  IF r = "ok" THEN Step("cfPush", Sched, status, changeQueue, retryCount, "", 0)
  ELSE Step("idle", Sched, "ja:offline", changeQueue, retryCount, "cfFail", 0)

\* a CONFLICT branch that reports the plain success status after its push
cfAfterPushPlain(r) ==
  IF r = "ok"
  THEN Step("idle", Sched, "ja:enabled", {}, 0, "cfOk", 0)
  ELSE Step("idle", Sched, "ja:offline", changeQueue, retryCount, "cfFail", 0)

cfAfterPush(r) ==
  IF r = "ok"
  THEN Step("idle", Sched, "ja:syncCompleteWithConflicts", {}, 0, "cfOk", 0)
  ELSE Step("idle", Sched, "ja:offline", changeQueue, retryCount, "cfFail", 0)

\* The awaited call `op` of the processQueue invocation settles with r.
PQDo(op, r, n) ==
  /\ pq.pc = op
  /\ PQSet(n.pc, n.S, n.st, n.q, n.rc)
  /\ obs' = ObsPQ(op, r, n)

PQHasChanges(b) == PQDo("hasChanges", b, afterHasChanges(b))
PQCommit(r) == CanHandle(r) /\ PQDo("commit", r, afterCommit(r))
PQPush(r) == CanHandle(r) /\ PQDo("push", r, afterPush(r))
PQPullFetch(r) == PQDo("rcFetch", r, rcAfterFetch(r))
PQPullHasRemote(b) == PQDo("rcHasRemote", b, rcAfterHasRemote(b))
PQPullMerge(r) == PQDo("rcMerge", r, rcAfterMerge(r))
PQRetryPush(r) == PQDo("rcPush", r, rcAfterPush(r))
PQConflictCommit(r) == PQDo("cfCommit", r, cfAfterCommit(r))
PQConflictPush(r) == PQDo("cfPush", r, cfAfterPush(r))

(* ======================= AutoPullService via the 'auto-pull' timer ===== *)
\* SyncEngine.startAutoSync (command jjj.enable, toggleAutoSync); after
\* activation the auto-pull callback is set.  The model follows one
\* timer-started pull at a time, so the timer is not re-armed from outside
\* while that pull is in flight.
startAutoSync(interval) ==
  /\ activated
  /\ tp = "idle"
  /\ IF ~autoSyncEnabled
     THEN UNCHANGED <<timers, timeouts>>
     ELSE /\ HasRoom(clearTimer(Sched, AUTO_PULL))
          /\ LET S == scheduleRandomInterval(Sched, AUTO_PULL, interval)
             IN timers' = S.timers /\ timeouts' = S.timeouts
  /\ obs' = IF autoSyncEnabled THEN ObsStart ELSE obs
  /\ UNCHANGED <<pureVars, activated, autoSyncEnabled, status, paused, syncLock, changeQueue,
                 isProcessing, retryCount, pq, tp, ms>>

\* SyncEngine.stopAutoSync (command jjj.disable, toggleAutoSync, deactivate)
stopAutoSync ==
  /\ activated
  /\ LET S == clearAll(Sched)
     IN timers' = S.timers /\ timeouts' = S.timeouts
  /\ obs' = ObsStop
  /\ UNCHANGED <<pureVars, activated, autoSyncEnabled, status, paused, syncLock, changeQueue,
                 isProcessing, retryCount, pq, tp, ms>>

\* The recurring timeout of 'auto-pull' fires: the wrapper of
\* scheduleRandomInterval, and pull() up to its awaited fetch.
FirePull(t, interval) ==
  /\ Due(t)
  /\ t.key = AUTO_PULL
  /\ LET S == Fired(Sched, t)
     IN IF paused
        THEN LET R == scheduleRandomInterval(S, AUTO_PULL, interval)
             IN timers' = R.timers /\ timeouts' = R.timeouts /\ tp' = tp
        ELSE timers' = S.timers /\ timeouts' = S.timeouts /\ tp' = "fetch"
  /\ obs' = ObsFirePull(IF paused THEN "paused" ELSE "run", interval)
  /\ UNCHANGED <<pureVars, activated, autoSyncEnabled, status, paused, syncLock, changeQueue,
                 isProcessing, retryCount, pq, ms>>

\* a recurring wrapper without catch: a rejection ends it
callbackMustResolve(how) == how # "rejected"
\* try { await callback() } catch { log }: the wrapper goes on after its callback
\* has resolved or rejected
callbackSettled(how) == TRUE

\* pull() moves on; when it returns (pc2 = "idle": how = "returned" or "failed"
\* after its handleError) or rejects (how = "rejected") the wrapper re-arms the
\* timer if the Map still has the key.
TPSet(pc2, st, interval, how) ==
  /\ tp' = pc2
  /\ status' = st
  /\ IF pc2 = "idle" /\ callbackSettled(how) /\ timers[AUTO_PULL] # "none"
     THEN /\ HasRoom(clearTimer(Sched, AUTO_PULL))
          /\ LET S == scheduleRandomInterval(Sched, AUTO_PULL, interval)
             IN timers' = S.timers /\ timeouts' = S.timeouts
     ELSE UNCHANGED <<timers, timeouts>>
  /\ obs' = IF pc2 = "idle"
            THEN ObsPullReturn(how, interval, timers'[AUTO_PULL] = "live")
            ELSE obs
  /\ UNCHANGED <<pureVars, activated, autoSyncEnabled, paused, syncLock, changeQueue,
                 isProcessing, retryCount, pq, ms>>

TPFetch(r, interval) ==
  /\ tp = "fetch"
  /\ IF r = "ok" THEN TPSet("hasRemote", status, interval, "returned")
     ELSE TPSet("idle", pullHandleError(r), interval, "failed")

\* a pull that reports success when there was nothing to reconcile
afterBehindCheckEnabled(behind) ==
  [pc |-> IF behind THEN "merge" ELSE "idle",
   st |-> IF behind THEN status ELSE "ja:enabled"]
\* pull() after hasRemoteChanges() returned: go on to merge, or return
afterBehindCheck(behind) ==
  [pc |-> IF behind THEN "merge" ELSE "idle", st |-> status]

TPHasRemote(behind, interval) ==
  /\ tp = "hasRemote"
  /\ TPSet(afterBehindCheck(behind).pc, afterBehindCheck(behind).st, interval, "noop")

TPMerge(r, interval) ==
  /\ tp = "merge"
  /\ TPSet("idle", IF r = "ok" THEN "ja:enabled" ELSE pullHandleError(r), interval,
           IF r = "ok" THEN "returned" ELSE "failed")

\* The callback registered for 'auto-pull' rejects while it awaits fetch or
\* merge.  pull() as it is written catches every failure itself, so this is a
\* fault put to the scheduler's wrapper, which has a catch block for it.
TPRejects(interval) ==
  /\ tp \in {"fetch", "merge"}
  /\ TPSet("idle", status, interval, "rejected")

(* ======================= manualSync / performFullSync ================== *)
\* TimerScheduler.pause and resume: the value they give this.paused
pause == TRUE
\* a resume() that leaves the flag as it is
resumeForgotten == paused
resume == FALSE

\* SyncEngine.handleSyncError: the status after it
handleSyncError(e) ==
  IF e = "NETWORK_ERROR" THEN "offline"
  ELSE IF e = "CONFLICT" THEN "syncCompleteWithConflicts"
  ELSE status

\* the finally block of performFullSync: the status it sets
fullSyncFinally(st) == "enabled"

\* an acquireLock that never waits
lockNeverHeld == TRUE
\* acquireLock leaves its loop when the lock is free
lockFree == ~syncLock

\* a finally block that leaves the lock as it is
releaseLockSkipped == syncLock
\* SyncEngine.releaseLock: the value it gives syncLock
releaseLock == FALSE

InCritical == {"hasChanges", "commit", "fetch", "hasRemote", "merge", "push"}

\* manualSync is invoked: it pauses the timers and awaits saveAll
ManualSyncStart(i) ==
  /\ activated
  /\ ms[i] = "idle"
  /\ \A j \in 1..MaxManual : j < i => ms[j] # "idle"
  /\ paused' = pause
  /\ ms' = [ms EXCEPT ![i] = "saveAll"]
  /\ obs' = ObsManual(i, "start")
  /\ UNCHANGED <<pureVars, activated, autoSyncEnabled, status, timers, timeouts, syncLock,
                 changeQueue, isProcessing, retryCount, pq, tp>>

\* acquireLock: take the lock if it is free, else sleep and look again
acquire(i) ==
  IF lockFree
  THEN syncLock' = TRUE /\ ms' = [ms EXCEPT ![i] = "hasChanges"]
  ELSE syncLock' = syncLock /\ ms' = [ms EXCEPT ![i] = "lockWait"]

\* saveAll settled: if its promise resolved (saved), performFullSync starts and
\* asks for the lock; if it rejected, manualSync's catch and finally run.
ManualSaveAll(i, saved) ==
  /\ ms[i] = "saveAll"
  /\ IF saved
     THEN acquire(i) /\ paused' = paused /\ obs' = obs
     ELSE /\ ms' = [ms EXCEPT ![i] = "idle"]
          /\ paused' = resume
          /\ syncLock' = syncLock
          /\ obs' = ObsManual(i, "saveFailed")
  /\ UNCHANGED <<pureVars, activated, autoSyncEnabled, status, timers, timeouts, changeQueue,
                 isProcessing, retryCount, pq, tp>>

\* the 1000 ms sleep of acquireLock is over
ManualPollLock(i) ==
  /\ ms[i] = "lockWait"
  /\ acquire(i)
  /\ obs' = obs
  /\ UNCHANGED <<pureVars, activated, autoSyncEnabled, status, timers, timeouts, paused,
                 changeQueue, isProcessing, retryCount, pq, tp>>

\* performFullSync goes on to its next awaited call
FSSet(i, pc2, st) ==
  /\ ms' = [ms EXCEPT ![i] = pc2]
  /\ status' = st
  /\ obs' = obs
  /\ UNCHANGED <<pureVars, activated, autoSyncEnabled, timers, timeouts, paused, syncLock,
                 changeQueue, isProcessing, retryCount, pq, tp>>

\* performFullSync returns after st was set: its finally block releases the lock
\* and sets the status; manualSync's finally block resumes the timers.
FSReturn(i, st, how) ==
  /\ ms' = [ms EXCEPT ![i] = "idle"]
  /\ syncLock' = releaseLock
  /\ status' = fullSyncFinally(st)
  /\ paused' = resume
  /\ obs' = ObsManual(i, how)
  /\ UNCHANGED <<pureVars, activated, autoSyncEnabled, timers, timeouts, changeQueue,
                 isProcessing, retryCount, pq, tp>>

\* a performFullSync that goes on whatever hasUncommittedChanges reported
skipNoSync(hasChanges) == FALSE
\* performFullSync: if (!hasChanges) return
skipSync(hasChanges) == ~hasChanges

FSHasChanges(i, hasChanges) ==
  /\ ms[i] = "hasChanges"
  /\ IF ~skipSync(hasChanges) THEN FSSet(i, "commit", "syncing")
     ELSE FSReturn(i, status, "skipped")

FSCommit(i, r) ==
  /\ ms[i] = "commit"
  /\ IF r = "ok" THEN FSSet(i, "fetch", status)
     ELSE FSReturn(i, handleSyncError(r), "failed")

FSFetch(i, r) ==
  /\ ms[i] = "fetch"
  /\ IF r = "ok" THEN FSSet(i, "hasRemote", status)
     ELSE FSReturn(i, handleSyncError(r), "failed")

FSHasRemote(i, behind) ==
  /\ ms[i] = "hasRemote"
  /\ FSSet(i, IF behind THEN "merge" ELSE "push", status)

FSMerge(i, r) ==
  /\ ms[i] = "merge"
  /\ IF r = "ok" THEN FSSet(i, "push", status)
     ELSE FSReturn(i, handleSyncError(r), "failed")

FSPush(i, r) ==
  /\ ms[i] = "push"
  /\ IF r = "ok" THEN FSReturn(i, status, "synced")
     ELSE FSReturn(i, handleSyncError(r), "failed")

(* ======================= specifications ================================ *)
\* a one-shot timeout fires, or an awaited call of processQueue settles
processQueue ==
  \/ \E t \in BagToSet(timeouts) : FireOnce(t)
  \/ \E b \in BOOLEAN : PQHasChanges(b)
  \/ \E r \in Results : PQCommit(r)
  \/ \E r \in Results : PQPush(r)
  \/ \E r \in Results : PQPullFetch(r)
  \/ \E b \in BOOLEAN : PQPullHasRemote(b)
  \/ \E r \in Results : PQPullMerge(r)
  \/ \E r \in Results : PQRetryPush(r)
  \/ \E r \in Results : PQConflictCommit(r)
  \/ \E r \in Results : PQConflictPush(r)

AutoCommitStep ==
  \/ \E f \in Files : queueChange(f)
  \/ processQueue

AutoPullStep ==
  \/ \E d \in RandomIntervals : startAutoSync(d)
  \/ \E t \in BagToSet(timeouts), d \in RandomIntervals : FirePull(t, d)
  \/ \E r \in Results, d \in RandomIntervals : TPFetch(r, d)
  \/ \E b \in BOOLEAN, d \in RandomIntervals : TPHasRemote(b, d)
  \/ \E r \in Results, d \in RandomIntervals : TPMerge(r, d)

\* the i-th performFullSync between acquireLock and its return
fullSyncBody(i) ==
  \/ \E b \in BOOLEAN : FSHasChanges(i, b)
  \/ \E r \in Results : FSCommit(i, r)
  \/ \E r \in Results : FSFetch(i, r)
  \/ \E b \in BOOLEAN : FSHasRemote(i, b)
  \/ \E r \in Results : FSMerge(i, r)
  \/ \E r \in Results : FSPush(i, r)

\* the steps of the i-th performFullSync once it was called
performFullSync(i) ==
  \/ ManualPollLock(i)
  \/ fullSyncBody(i)

ManualStep(n) ==
  \E i \in 1..n :
    \/ ManualSyncStart(i)
    \/ \E b \in BOOLEAN : ManualSaveAll(i, b)
    \/ performFullSync(i)

EnvStep ==
  \/ \E e \in InitEnvs : Activate(initOutcome(e))
  \/ ConfigChange
  \/ stopAutoSync
  \/ Tick

Next ==
  \/ EnvStep
  \/ AutoCommitStep
  \/ AutoPullStep
  \/ ManualStep(MaxManual)

\* The whole program.
Spec == Init /\ [][Next]_vars

\* The manual sync command, overlapping with itself and with the remote poller.
NextManual ==
  \/ EnvStep
  \/ AutoPullStep
  \/ ManualStep(MaxManual)
InitManual == Init /\ obs.watch = {"manual"}
SpecManual == InitManual /\ [][NextManual]_vars
\* The same, observing the recurring timer instead of the manual syncs.
InitPull == Init /\ obs.watch = {"pull"}
SpecPull == InitPull /\ [][NextManual]_vars
\* The same, where every awaited call of a performFullSync settles and the
\* sleep of its acquireLock ends.
SpecManualFair ==
  SpecManual /\ \A i \in 1..MaxManual : WF_vars(performFullSync(i))

\* The change debouncer for saves of one file and one manual sync at a time,
\* which pauses the timers.
NextPause ==
  \/ EnvStep
  \/ queueChange("a.txt")
  \/ processQueue
  \/ ManualSyncStart(1)
  \/ \E b \in BOOLEAN : ManualSaveAll(1, b)
  \/ fullSyncBody(1)
InitPause == Init /\ obs.watch = {}
SpecPause == InitPause /\ [][NextPause]_vars

\* The remote poller beside the change debouncer for saves of one file, where
\* the working copy has no uncommitted changes when processQueue asks and the
\* callback of the recurring timer can reject.
NextTimers ==
  \/ EnvStep
  \/ AutoPullStep
  \/ \E d \in RandomIntervals : TPRejects(d)
  \/ queueChange("a.txt")
  \/ \E t \in BagToSet(timeouts) : FireOnce(t)
  \/ PQHasChanges(FALSE)
SpecTimers == InitPull /\ [][NextTimers]_vars

\* The change debouncer with all its recovery branches, under configuration
\* changes and stopAutoSync; one specification for each observer.
NextAutoCommit ==
  \/ EnvStep
  \/ AutoCommitStep
InitCommit == Init /\ obs.watch = {"run"}
SpecCommit == InitCommit /\ [][NextAutoCommit]_vars
InitDebounce == Init /\ obs.watch = {"burst"}
SpecDebounce == InitDebounce /\ [][NextAutoCommit]_vars
InitRetry == Init /\ obs.watch = {"cyc"}
SpecRetry == InitRetry /\ [][NextAutoCommit]_vars

(* ======================= properties ==================================== *)
\* the number of operations that are between their first and their last VCS call
InFlight ==
  (IF pq.pc # "idle" THEN 1 ELSE 0) + (IF tp # "idle" THEN 1 ELSE 0)
    + Cardinality({i \in 1..MaxManual : ms[i] \in InCritical})

\* C1: no two of performFullSync, processQueue and the timer-started pull are
\* between their first and their last VCS call at the same time.
MutualExclusion == InFlight <= 1

\* C2: in an undisturbed burst of queueChange calls the handler is invoked by an
\* 'auto-commit' timeout only when exactly one quiet period has passed since the
\* last call, it was not invoked before since that call, and the pending set
\* holds every file id queued in the burst.
DebounceProperty ==
  [][\A t \in BagToSet(timeouts) :
       (FireOnce(t) /\ t.key = AUTO_COMMIT /\ ~paused /\ obs.burst.ok)
         => /\ obs.burst.since = DebounceTicks
            /\ ~obs.burst.started
            /\ obs.burst.files \subseteq changeQueue]_vars

\* C3: one run of the quiet-period handler (a part of one commit-and-push cycle)
\* never has more than one commit call that succeeded.
NoDoubleCommit == obs.run.committed <= 1

\* C4: an undisturbed cycle in which a push was tried and every push failed with
\* NETWORK_ERROR ends after exactly MAX_RETRY_COUNT retry runs announced as
\* attempts 1, 2, 3, with status Offline, an empty pending set, RetryState 0
\* and no retry timeout pending.
RetryCeiling ==
  [][(obs.cyc.open /\ ~obs'.cyc.open /\ obs'.cyc.ok /\ obs'.cyc.pushed)
       => /\ obs'.cyc.retries = MAX_RETRY_COUNT
          /\ obs'.cyc.numbered
          /\ SyncStatusOf(status') = "Offline"
          /\ changeQueue' = {}
          /\ retryCount' = 0
          /\ \A t \in BagToSet(timeouts') : t.key # AUTO_COMMIT_RETRY]_vars

\* no processQueue, pull or manual sync is in flight
Quiescent ==
  pq.pc = "idle" /\ tp = "idle" /\ \A i \in 1..MaxManual : ms[i] = "idle"

\* C5: whenever no sync operation is in flight and no 'auto-commit-retry'
\* timeout is pending, the status is not Syncing.
TerminalStatus ==
  (Quiescent /\ PendingFor(AUTO_COMMIT_RETRY) = {})
    => SyncStatusOf(status) # "Syncing"

\* the processQueue invocation returns in this step
RunReturns == pq.pc # "idle" /\ pq'.pc = "idle"

NoOpOnUnchanged ==
  [][(RunReturns /\ obs'.run.changes = "no")
       => /\ obs'.run.commits = 0
          /\ obs'.run.pushes = 0
          /\ changeQueue' = {}]_vars

\* a run was told there are no changes and has returned
NoOpOnUnchangedReached ==
  obs.run.returned /\ obs.run.changes = "no" /\ changeQueue = {} /\ pq.pc = "idle"

\* a timer callback is started in this step
CallbackStarts ==
  \E t \in BagToSet(timeouts) :
    /\ t.rem = 0
    /\ ~paused
    /\ FireOnce(t) \/ \E d \in RandomIntervals : FirePull(t, d)

\* C8: while a manualSync invocation is between its pause and the return of
\* its performFullSync, the scheduler is paused and no timer callback starts.
PausedDuringManualSync ==
  [][(\E i \in 1..MaxManual : ms[i] # "idle") => (paused /\ ~CallbackStarts)]_vars

\* C9: when a manualSync invocation returns, the scheduler is not paused.
ResumedAfterManualSync ==
  [][\A i \in 1..MaxManual : (ms[i] # "idle" /\ ms'[i] = "idle") => ~paused']_vars

\* a manualSync whose performFullSync failed has returned, the timers resumed
ResumedAfterManualSyncReached ==
  obs.manual = "failed" /\ ~paused /\ \A i \in 1..MaxManual : ms[i] = "idle"

\* the performFullSync calls inside their commit/fetch/merge/push section
InSection == {i \in 1..MaxManual : ms[i] \in InCritical}

LockReleasedOnEveryExit ==
  /\ [](syncLock <=> Cardinality(InSection) = 1)
  /\ [][\A i \in 1..MaxManual :
          (ms[i] \in InCritical /\ ms'[i] = "idle") => ~syncLock']_vars
  /\ syncLock ~> ~syncLock
  /\ [](\A i \in 1..MaxManual :
          (ms[i] = "lockWait" /\ ~syncLock)
            => ENABLED (ManualPollLock(i) /\ ms'[i] = "hasChanges"))

\* after a failed sync released the lock, the caller that waited holds it
LockReleasedOnEveryExitReached ==
  /\ obs.manual = "failed" /\ syncLock
  /\ \E i, j \in 1..MaxManual : ms[i] = "idle" /\ ms[j] \in InCritical

\* the number of pending timeouts that were set for key k
PendingCount(k) ==
  BagCardinality([t \in PendingFor(k) |-> CopiesIn(t, timeouts)])

\* C12: at most one timeout is pending for every timer key, also after a key
\* was registered again while its own callback was executing.
OnePendingPerKey == \A k \in Keys : PendingCount(k) <= 1

\* C13: once no callback is executing, every pending 'auto-commit-retry'
\* timeout is the one registered under its key, so that getActiveTimerIds lists
\* it and clearTimer, clearAll or dispose cancel it.
SelfRearmRegistered ==
  pq.pc = "idle"
    => \A t \in PendingFor(AUTO_COMMIT_RETRY) :
         t.mapped /\ AUTO_COMMIT_RETRY \in getActiveTimerIds

\* C14: a one-shot timeout that fires while the scheduler is paused starts no
\* callback and is no longer pending, so it cannot start one after resume();
\* a processQueue invocation only starts from a pending timeout that fires
\* while the scheduler is not paused.
PausedOneShotDropped ==
  [][/\ \A t \in BagToSet(timeouts) :
          (FireOnce(t) /\ paused)
            => /\ UNCHANGED <<pq, isProcessing, changeQueue, status, retryCount>>
               /\ timeouts' = Remove(timeouts, {t})
     /\ (pq.pc = "idle" /\ pq'.pc # "idle")
          => /\ ~paused
             /\ \E t \in BagToSet(timeouts) :
                  /\ t.key = pq'.key /\ t.rem = 0
                  /\ timeouts' = Remove(timeouts, {t})]_vars

\* a one-shot timeout fired during a manual sync with a change pending; the
\* timers were resumed and nothing is left to fire
PausedOneShotDroppedReached ==
  /\ ~paused /\ pq.pc = "idle" /\ changeQueue # {} /\ autoSyncEnabled
  /\ timers[AUTO_COMMIT] = "stale" /\ timeouts = EmptyBag

\* C15: when the 'auto-pull' timeout fires while the scheduler is paused, the
\* callback is not started and the timer is armed again with a freshly drawn
\* delay; resume() leaves the timers as they are, and the timeout armed while
\* paused fires exactly when its delay has passed.
PausedRecurringRearms ==
  [][/\ \A t \in BagToSet(timeouts), d \in RandomIntervals :
          (FirePull(t, d) /\ paused)
            => /\ UNCHANGED <<tp, status>>
               /\ AUTO_PULL \in getActiveTimerIds'
               /\ timeouts' = Remove(timeouts, {t})
                                (+) SetToBag({Timeout(AUTO_PULL, d, TRUE)})
     /\ \A t \in BagToSet(timeouts), d \in RandomIntervals :
          (FirePull(t, d) /\ obs.pull.how = "paused")
            => obs.pull.since = obs.pull.delay
     /\ (paused /\ ~paused') => UNCHANGED <<timers, timeouts, tp>>]_vars

\* the callback runs, unpaused, started by the timeout armed while paused
PausedRecurringRearmsReached ==
  /\ tp = "fetch" /\ ~paused
  /\ obs.pull.how = "run" /\ obs.pull.prev = "paused"
  /\ obs.pull.since = obs.pull.delay /\ obs.pull.delay \in RandomIntervals

\* C16: a one-shot key whose timeout has fired is among getActiveTimerIds
\* only while the callback that timeout started is executing.
OneShotEntryGone ==
  \A k \in OnceKeys :
    (k \in getActiveTimerIds /\ timers[k] = "stale")
      => (pq.pc # "idle" /\ pq.key = k)

\* a pull invocation ends in this step
PullEnds == tp # "idle" /\ tp' = "idle"

\* C17: when the callback of 'auto-pull' ends, also by a failure or a
\* rejection, the timers of the other keys stay as they are and, unless the
\* timer was cancelled meanwhile, it is armed again with a freshly drawn
\* delay; the timeout armed after a failed or rejected invocation fires when
\* that delay has passed and starts the callback again.
CallbackFailureContained ==
  [][/\ PullEnds
          => /\ \A k \in OnceKeys :
                  /\ timers'[k] = timers[k]
                  /\ \A t \in PendingFor(k) :
                       CopiesIn(t, timeouts') = CopiesIn(t, timeouts)
             /\ AUTO_PULL \in getActiveTimerIds
                  => /\ timers'[AUTO_PULL] = "live"
                     /\ \E d \in RandomIntervals :
                          timeouts' = timeouts (+) SetToBag({Timeout(AUTO_PULL, d, TRUE)})
     /\ \A t \in BagToSet(timeouts), d \in RandomIntervals :
          (FirePull(t, d) /\ obs.pull.how \in {"failed", "rejected"})
            => /\ obs.pull.since = obs.pull.delay
               /\ ~paused => tp' = "fetch"]_vars

\* the callback runs again, one delay after an invocation that rejected, while
\* a timeout of 'auto-commit' is pending
CallbackFailureContainedReached ==
  /\ tp = "fetch" /\ obs.pull.how = "run" /\ obs.pull.prev = "rejected"
  /\ obs.pull.since = obs.pull.delay /\ obs.pull.delay \in RandomIntervals
  /\ PendingFor(AUTO_COMMIT) # {}

\* C18: a cancelled recurring timer stays cancelled until it is scheduled
\* anew: stopAutoSync (clearAll) leaves no 'auto-pull' timeout pending and no
\* entry; only startAutoSync registers the key again, so a callback that was
\* executing when the timer was cancelled does not arm it on its return; the
\* callback only starts from the timeout registered under the key; and as
\* long as the timer is not cancelled, every end of the callback arms it again.
CancelledRecurringStays ==
  /\ [](/\ \A t \in PendingFor(AUTO_PULL) : t.mapped
        /\ PendingCount(AUTO_PULL) <= 1
        /\ AUTO_PULL \notin getActiveTimerIds => PendingFor(AUTO_PULL) = {})
  /\ [][/\ stopAutoSync => AUTO_PULL \notin getActiveTimerIds'
        /\ (AUTO_PULL \notin getActiveTimerIds /\ AUTO_PULL \in getActiveTimerIds')
             => \E d \in RandomIntervals : startAutoSync(d)
        /\ (tp = "idle" /\ tp' # "idle")
             => /\ timers[AUTO_PULL] = "live"
                /\ \E t \in Held(Sched, AUTO_PULL) : t.rem = 0
        /\ (PullEnds /\ AUTO_PULL \in getActiveTimerIds)
             => PendingCount(AUTO_PULL)' = 1]_vars

\* the timer was cancelled while its callback was executing; the callback has
\* ended and nothing is pending
CancelledRecurringStaysReached ==
  /\ obs.pull.how = "none" /\ obs.pull.prev = "run"
  /\ tp = "idle" /\ autoSyncEnabled
  /\ AUTO_PULL \notin getActiveTimerIds /\ timeouts = EmptyBag

\* C19: the pending set only grows or becomes empty, and a run that returns
\* without having armed a retry leaves it empty.
PendingDrained ==
  [][/\ changeQueue' = {} \/ changeQueue \subseteq changeQueue'
     /\ (RunReturns /\ obs'.run.changes # "none" /\ retryCount' # retryCount + 1)
          => changeQueue' = {}]_vars

\* C20: a run that found uncommitted changes sets the status to Syncing before
\* its commit call; when its commit and the push after it succeed, it returns
\* after exactly one commit call and one push call with an empty pending set,
\* RetryState 0 and status Enabled.
CommitPushSuccess ==
  [][/\ (pq.pc = "hasChanges" /\ pq'.pc = "commit")
          => SyncStatusOf(status') = "Syncing"
     /\ (pq.pc = "push" /\ RunReturns /\ obs'.run.pushed = 1)
          => /\ obs'.run.changes = "yes"
             /\ obs'.run.first = "ok"
             /\ obs'.run.commits = 1 /\ obs'.run.committed = 1
             /\ obs'.run.pushes = 1
             /\ changeQueue' = {}
             /\ retryCount' = 0
             /\ SyncStatusOf(status') = "Enabled"]_vars

\* a run has committed and pushed at the first attempt and returned
CommitPushSuccessReached ==
  /\ obs.run.returned /\ obs.run.changes = "yes" /\ obs.run.first = "ok"
  /\ obs.run.commits = 1 /\ obs.run.pushes = 1 /\ obs.run.pushed = 1
  /\ pq.pc = "idle" /\ status = "ja:enabled" /\ changeQueue = {} /\ retryCount = 0

\* C21: the RemoteChanged branch is entered from a failed commit or push,
\* calls pull once and then push once and makes no commit call; when that
\* push succeeds the run returns with an empty pending set and status Enabled,
\* when it fails with status Offline; in both cases no retry timer is armed.
RemoteChangedRecovery ==
  [][/\ (pq.pc # "rcFetch" /\ pq'.pc = "rcFetch") => pq.pc \in {"commit", "push"}
     /\ (pq.pc # "rcPush" /\ pq'.pc = "rcPush")
          => pq.pc \in {"rcFetch", "rcHasRemote", "rcMerge"}
     /\ (pq.pc = "rcPush" /\ RunReturns)
          => /\ obs'.run.pulls = 1
             /\ obs'.run.commits = 1
             /\ obs'.run.pushes = (IF obs'.run.first = "ok" THEN 2 ELSE 1)
             /\ PendingCount(AUTO_COMMIT_RETRY)' = PendingCount(AUTO_COMMIT_RETRY)
             /\ AUTO_COMMIT_RETRY \notin getActiveTimerIds' \ getActiveTimerIds
             /\ IF obs'.run.pushed = 1
                THEN changeQueue' = {} /\ SyncStatusOf(status') = "Enabled"
                ELSE SyncStatusOf(status') = "Offline"]_vars

\* a run whose push failed with REMOTE_CHANGED has pulled, pushed again with
\* success and returned
RemoteChangedRecoveryReached ==
  /\ obs.run.returned /\ obs.run.first = "ok" /\ obs.run.pulls = 1
  /\ obs.run.commits = 1 /\ obs.run.pushes = 2 /\ obs.run.pushed = 1
  /\ pq.pc = "idle" /\ changeQueue = {} /\ status = "ja:enabled"

\* the failure classes handleError has no branch of their own for
OtherErrors == {"AUTH_ERROR", "JJ_NOT_FOUND", "UNKNOWN"}

\* C22: when the commit or the push of a run fails with an Auth, NotFound or
\* Unknown error, the run returns at once (no further VCS call) through the
\* branch that sends the generic error notification, with an empty pending
\* set, RetryState 0 and status Enabled, and arms no retry timer.
AbandonOnOtherError ==
  [][\A r \in OtherErrors :
       (PQCommit(r) \/ PQPush(r))
         => /\ RunReturns
            /\ obs'.run.outcome = "abandoned"
            /\ changeQueue' = {}
            /\ retryCount' = 0
            /\ SyncStatusOf(status') = "Enabled"
            /\ PendingCount(AUTO_COMMIT_RETRY)' = PendingCount(AUTO_COMMIT_RETRY)
            /\ AUTO_COMMIT_RETRY \notin getActiveTimerIds' \ getActiveTimerIds]_vars

\* a run whose push failed with an error of no class of its own has abandoned
AbandonOnOtherErrorReached ==
  /\ obs.run.returned /\ obs.run.outcome = "abandoned"
  /\ obs.run.first = "ok" /\ obs.run.pushes = 1 /\ obs.run.pushed = 0
  /\ pq.pc = "idle" /\ changeQueue = {} /\ retryCount = 0 /\ status = "ja:enabled"

\* C23: a queueChange call made while auto-sync is disabled leaves the
\* pending set, the Map of timers and the pending timeouts as they are; while
\* auto-sync is disabled no step adds a file id to the pending set or arms the
\* 'auto-commit' timer.
DisabledQueueChangeNoOp ==
  [][/\ \A f \in Files :
          (queueChange(f) /\ ~autoSyncEnabled)
            => UNCHANGED <<changeQueue, timers, timeouts>>
     /\ ~autoSyncEnabled
          => /\ changeQueue' \subseteq changeQueue
             /\ PendingCount(AUTO_COMMIT)' <= PendingCount(AUTO_COMMIT)
             /\ timers'[AUTO_COMMIT] = "live" => timers[AUTO_COMMIT] = "live"]_vars

\* auto-sync was disabled during a debounce: file ids and a timeout are
\* pending, and a queueChange call now leaves them so
DisabledQueueChangeNoOpReached ==
  /\ activated /\ ~autoSyncEnabled /\ pq.pc = "idle"
  /\ changeQueue = {"a.txt"} /\ timers[AUTO_COMMIT] = "live"
  /\ \E t \in PendingFor(AUTO_COMMIT) : t.mapped /\ t.rem = 1
  /\ ENABLED (queueChange("b.txt") /\ UNCHANGED vars)

\* C24: when an 'auto-commit' timeout invokes the handler while the pending
\* set is not empty and auto-sync is disabled, the handler empties the pending
\* set, starts no VCS call and leaves the status as it is.
DisabledExpiryClears ==
  [][\A t \in BagToSet(timeouts) :
       (FireOnce(t) /\ t.key = AUTO_COMMIT /\ ~paused
          /\ ~autoSyncEnabled /\ changeQueue # {})
         => /\ changeQueue' = {}
            /\ UNCHANGED <<pq, isProcessing, status>>]_vars

\* C25: stopAutoSync leaves the entries and the pending timeouts of
\* 'auto-commit' and 'auto-commit-retry' and the pending set as they are.
StopKeepsDebounce ==
  [][stopAutoSync
       => /\ changeQueue' = changeQueue
          /\ \A k \in OnceKeys :
               /\ timers'[k] = timers[k]
               /\ PendingCount(k)' = PendingCount(k)]_vars

\* C26: the pull started by the 'auto-pull' timer sets the status by its
\* outcome: Offline after a fetch failure of any kind; after a successful
\* reconcile Enabled, after one that failed with CONFLICT
\* SyncCompleteWithConflicts, after any other failure Offline; reconcile is
\* only called after the behind-check that followed a successful fetch.
PullStatusByOutcome ==
  [][\A d \in RandomIntervals :
       /\ \A r \in ErrorTypes :
            TPFetch(r, d) => (tp' = "idle" /\ SyncStatusOf(status') = "Offline")
       /\ \A r \in Results :
            TPMerge(r, d)
              => /\ tp' = "idle"
                 /\ SyncStatusOf(status') =
                      (IF r = "ok" THEN "Enabled"
                       ELSE IF r = "CONFLICT" THEN "SyncCompleteWithConflicts"
                       ELSE "Offline")
       /\ (tp # "merge" /\ tp' = "merge") => tp = "hasRemote"
       /\ (tp # "hasRemote" /\ tp' = "hasRemote") => (tp = "fetch" /\ TPFetch("ok", d))]_vars

\* C27: a pull whose fetch succeeded and whose behind-check was negative
\* returns without a reconcile call, and neither its fetch step nor its
\* return changes the status.
NoOpPull ==
  [][\A d \in RandomIntervals :
       /\ TPFetch("ok", d) => (tp' = "hasRemote" /\ status' = status)
       /\ TPHasRemote(FALSE, d) => (tp' = "idle" /\ status' = status)]_vars

\* a pull found nothing to reconcile and has returned; the status is one that
\* pull never sets
NoOpPullReached ==
  /\ tp = "idle" /\ obs.pull.how = "noop" /\ obs.pull.since = 0
  /\ status = "localOnly"

\* C28: a performFullSync that was told there are uncommitted changes calls
\* commit, then fetch, then the behind-check, then reconcile only if behind,
\* then push: each call is entered only from the one before it, so none is made
\* twice; one that was told there are none returns without any of these calls.
FullSyncOrder ==
  [][\A i \in 1..MaxManual :
       /\ FSHasChanges(i, FALSE) => ms'[i] = "idle"
       /\ (ms[i] # ms'[i] /\ ms'[i] = "hasChanges") => ms[i] \in {"saveAll", "lockWait"}
       /\ (ms[i] # ms'[i] /\ ms'[i] = "commit") => FSHasChanges(i, TRUE)
       /\ (ms[i] # ms'[i] /\ ms'[i] = "fetch") => FSCommit(i, "ok")
       /\ (ms[i] # ms'[i] /\ ms'[i] = "hasRemote") => FSFetch(i, "ok")
       /\ (ms[i] # ms'[i] /\ ms'[i] = "merge") => FSHasRemote(i, TRUE)
       /\ (ms[i] # ms'[i] /\ ms'[i] = "push")
            => (FSHasRemote(i, FALSE) \/ FSMerge(i, "ok"))]_vars

\* a performFullSync has committed, fetched and pushed and has returned
FullSyncOrderReached ==
  obs.manual = "synced" /\ ~syncLock /\ \A i \in 1..MaxManual : ms[i] = "idle"

\* C29: when the commit, fetch, reconcile or push of a performFullSync fails,
\* the performFullSync returns without a further call and without arming a
\* timer, and the status it leaves is Offline after a NETWORK_ERROR and
\* SyncCompleteWithConflicts after a CONFLICT.
FullSyncFailsFast ==
  [][\A i \in 1..MaxManual, r \in ErrorTypes :
       (FSCommit(i, r) \/ FSFetch(i, r) \/ FSMerge(i, r) \/ FSPush(i, r))
         => /\ ms'[i] = "idle"
            /\ UNCHANGED <<timers, timeouts>>
            /\ r = "NETWORK_ERROR" => SyncStatusOf(status') = "Offline"
            /\ r = "CONFLICT" => SyncStatusOf(status') = "SyncCompleteWithConflicts"]_vars

\* C30: initialize returns in every environment; it ends with status
\* Inapplicable after the first check when the tool is missing, after the
\* second when there is no repository, and when the repository initialization
\* fails; with LocalOnly when all that passed and no remote is configured; and
\* with Enabled exactly when every check passed.
InitializeShortCircuits ==
  [][\A e \in InitEnvs :
       Activate(initOutcome(e))
         => /\ activated'
            /\ initOutcome(e) \in InitOutcomes
            /\ ~e.tool
                 => /\ SyncStatusOf(status') = "Inapplicable"
                    /\ initChecks(e) = <<"isJJAvailable">>
            /\ (e.tool /\ ~e.repo)
                 => /\ SyncStatusOf(status') = "Inapplicable"
                    /\ initChecks(e) = <<"isJJAvailable", "detectGitRepo">>
            /\ (e.tool /\ e.repo /\ e.jj = "initThrows")
                 => SyncStatusOf(status') = "Inapplicable"
            /\ (e.tool /\ e.repo /\ e.jj # "initThrows" /\ ~e.remote)
                 => SyncStatusOf(status') = "LocalOnly"
            /\ SyncStatusOf(status') = "Enabled"
                 <=> (e.tool /\ e.repo /\ e.jj # "initThrows" /\ e.remote)]_vars

\* initialize has ended in its catch block and activation went on
InitializeShortCircuitsReached ==
  activated /\ status = "ja:notApplicable" /\ Quiescent /\ timeouts = EmptyBag

\* C31: when activate has run initialize, the 'auto-pull' timer is armed exactly
\* when the tool, repository and remote checks passed and auto-sync is enabled.
AutoPullArmedIffReady ==
  [][\A e \in InitEnvs :
       Activate(initOutcome(e))
         => (timers'[AUTO_PULL] = "live"
               <=> (initOutcome(e) = "ready" /\ autoSyncEnabled))]_vars

\* C32: once initialize has left the status Inapplicable, no later operation
\* of the session changes the status.
InapplicableTerminal ==
  [][(activated /\ SyncStatusOf(status) = "Inapplicable")
       => SyncStatusOf(status') = "Inapplicable"]_vars

(* ======================= utils/errorHandler.ts ========================= *)
\* A failure text is a sequence of words; written out, the words are joined by
\* single spaces.  No word of the vocabulary below contains another one, so
\* String.includes is the search for a contiguous run of words.
includes(text, pattern) ==
  \E i \in 1..(Len(text) + 1 - Len(pattern)) :
    SubSeq(text, i, i + Len(pattern) - 1) = pattern

\* the constructor of JJError
JJError(type, text) == [type |-> type, message |-> text]

\* parseJJError with the test for the network patterns before the test for the
\* missing command
parseJJErrorNetworkFirst(text) ==
  IF \/ includes(text, <<"Connection", "refused">>)
     \/ includes(text, <<"timeout">>)
     \/ includes(text, <<"network">>)
     \/ includes(text, <<"Could", "not", "resolve", "host">>)
  THEN JJError("NETWORK_ERROR", <<"ja:networkError">>)
  ELSE IF \/ includes(text, <<"command", "not", "found">>)
          \/ includes(text, <<"not", "recognized">>)
  THEN JJError("JJ_NOT_FOUND", <<"ja:jjNotFound">>)
  ELSE IF \/ includes(text, <<"remote", "has", "new", "commits">>)
          \/ includes(text, <<"rejected">>)
          \/ includes(text, <<"non-fast-forward">>)
  THEN JJError("REMOTE_CHANGED", <<"ja:remoteChanged">>)
  ELSE IF includes(text, <<"conflict">>) \/ includes(text, <<"CONFLICT">>)
  THEN JJError("CONFLICT", <<"ja:conflict">>)
  ELSE IF \/ includes(text, <<"authentication", "failed">>)
          \/ includes(text, <<"Permission", "denied">>)
          \/ includes(text, <<"fatal:", "could", "not", "read">>)
  THEN JJError("AUTH_ERROR", <<"ja:authError">>)
  ELSE JJError("UNKNOWN",
               IF text # << >> THEN text ELSE <<"Unknown", "error", "occurred">>)

\* parseJJError, given the text it reads from the error (error.message, else
\* error.stderr, else error.toString()).  The messages of the known kinds are
\* fixed Japanese sentences, written here as one word with the prefix "ja:".
parseJJError(text) ==
  IF \/ includes(text, <<"command", "not", "found">>)
     \/ includes(text, <<"not", "recognized">>)
  THEN JJError("JJ_NOT_FOUND", <<"ja:jjNotFound">>)
  ELSE IF \/ includes(text, <<"Connection", "refused">>)
          \/ includes(text, <<"timeout">>)
          \/ includes(text, <<"network">>)
          \/ includes(text, <<"Could", "not", "resolve", "host">>)
  THEN JJError("NETWORK_ERROR", <<"ja:networkError">>)
  ELSE IF \/ includes(text, <<"remote", "has", "new", "commits">>)
          \/ includes(text, <<"rejected">>)
          \/ includes(text, <<"non-fast-forward">>)
  THEN JJError("REMOTE_CHANGED", <<"ja:remoteChanged">>)
  ELSE IF includes(text, <<"conflict">>) \/ includes(text, <<"CONFLICT">>)
  THEN JJError("CONFLICT", <<"ja:conflict">>)
  ELSE IF \/ includes(text, <<"authentication", "failed">>)
          \/ includes(text, <<"Permission", "denied">>)
          \/ includes(text, <<"fatal:", "could", "not", "read">>)
  THEN JJError("AUTH_ERROR", <<"ja:authError">>)
  ELSE JJError("UNKNOWN",
               IF text # << >> THEN text ELSE <<"Unknown", "error", "occurred">>)

\* the phrases a failure text is put together from: the phrases the tool, the
\* shell and the transport print, and words that look like them
Phrases ==
  {<<"command", "not", "found">>, <<"not", "recognized">>,
   <<"Connection", "refused">>, <<"timeout">>, <<"network">>,
   <<"Could", "not", "resolve", "host">>,
   <<"remote", "has", "new", "commits">>, <<"rejected">>, <<"non-fast-forward">>,
   <<"conflict">>, <<"CONFLICT">>,
   <<"authentication", "failed">>, <<"Permission", "denied">>,
   <<"fatal:", "could", "not", "read">>,
   <<"Error:">>, <<"command">>, <<"not", "found">>, <<"Network">>, <<"failed">>}

\* phrases in a failure text
MaxPhrases == 2

RECURSIVE Concats(_)
Concats(n) ==
  IF n = 0 THEN {<< >>}
  ELSE LET P == Concats(n - 1) IN P \cup {p \o q : p \in P, q \in Phrases}

\* the failure texts: a failed command always leaves a text
Texts == Concats(MaxPhrases) \ {<< >>}

\* the variables of the services
serviceVars ==
  <<activated, autoSyncEnabled, status, timers, timeouts, paused, syncLock,
    changeQueue, isProcessing, retryCount, pq, tp, ms, obs>>

\* a catch block of JJManager: throw parseJJError(error)
ThrowParsed ==
  /\ "parseJJError" \notin called
  /\ jjError' = parseJJError(message)
  /\ called' = called \cup {"parseJJError"}
  /\ UNCHANGED <<serviceVars, message, content, conflicts, hasMarkers>>

\* parseJJError over the failure texts
InitParse ==
  /\ Constructed
  /\ autoSyncEnabled = TRUE
  /\ obs.watch = {}
  /\ message \in Texts
  /\ content = << >>
  /\ jjError = [type |-> "", message |-> << >>]
  /\ conflicts = << >>
  /\ hasMarkers = FALSE
  /\ called = {}
NextParse == ThrowParsed
SpecParse == InitParse /\ [][NextParse]_vars

\* the categories of the classification in their order, with their patterns
Categories ==
  <<[kind |-> "JJ_NOT_FOUND",
     patterns |-> {<<"command", "not", "found">>, <<"not", "recognized">>}],
    [kind |-> "NETWORK_ERROR",
     patterns |-> {<<"Connection", "refused">>, <<"timeout">>, <<"network">>,
                   <<"Could", "not", "resolve", "host">>}],
    [kind |-> "REMOTE_CHANGED",
     patterns |-> {<<"remote", "has", "new", "commits">>, <<"rejected">>,
                   <<"non-fast-forward">>}],
    [kind |-> "CONFLICT", patterns |-> {<<"conflict">>, <<"CONFLICT">>}],
    [kind |-> "AUTH_ERROR",
     patterns |-> {<<"authentication", "failed">>, <<"Permission", "denied">>,
                   <<"fatal:", "could", "not", "read">>}]>>
\* the categories of which the text contains a pattern
Matching(text) ==
  {i \in DOMAIN Categories : \E p \in Categories[i].patterns : includes(text, p)}

\* C33: parseJJError returns for every failure text the kind of the first
\* category, in the order NotFound, Network, RemoteChanged, Conflict, Auth, of
\* which the text contains a pattern, and Unknown with the text itself as the
\* message when it contains none.
ParseTotalAndPrioritised ==
  "parseJJError" \in called
    => LET hits == Matching(message)
       IN IF hits = {}
          THEN jjError = [type |-> "UNKNOWN", message |-> message]
          ELSE /\ jjError.type \in ErrorTypes \ {"UNKNOWN"}
               /\ \E i \in hits :
                    /\ \A j \in hits : i <= j
                    /\ jjError.type = Categories[i].kind

\* a text with a NotFound and a Network pattern has been parsed
ParseTotalAndPrioritisedReached ==
  /\ "parseJJError" \in called
  /\ {1, 2} \subseteq Matching(message)

(* ======================= core/conflictDetector.ts ====================== *)
\* A line of a file, as content.split('\n') gives it, by what the two functions
\* look at: the marker character the line starts with seven of ("" when it
\* starts with no marker) and what follows the seven characters: nothing (""),
\* text that starts with a whitespace character (" "), or other text ("x").
MarkerLines == [mark : {"<", "=", ">"}, rest : {"", " ", "x"}]
PlainLines == [mark : {""}, rest : {"", "x"}]
Lines == MarkerLines \cup PlainLines

\* lines in a file content
MaxLines == 4

\* the contents: content.split('\n') never gives an empty array, and a content
\* that ends with a newline gives a last line that is empty
Contents == UNION {[1..n -> Lines] : n \in 1..MaxLines}

\* line.startsWith of seven marker characters
startsWith(line, marker) == line.mark = marker

\* the lines.forEach of detectConflictsInContent from the 0-based index on,
\* with the locals inConflict and startLine and the regions pushed so far
RECURSIVE forEachLine(_, _, _, _, _)
forEachLine(lines, index, inConflict, startLine, found) ==
  IF index >= Len(lines) THEN found
  ELSE LET line == lines[index + 1]
       IN IF startsWith(line, "<")
          THEN forEachLine(lines, index + 1, TRUE, index + 1, found)
          ELSE IF startsWith(line, ">") /\ inConflict
          THEN forEachLine(lines, index + 1, FALSE, startLine,
                           Append(found, [startLine |-> startLine,
                                          endLine |-> index + 1]))
          ELSE forEachLine(lines, index + 1, inConflict, startLine, found)

\* ConflictDetector.detectConflictsInContent (the file path is copied into every
\* region and left out)
detectConflictsInContent(lines) == forEachLine(lines, 0, FALSE, -1, << >>)

\* hasConflictMarkers with only the first alternative of its pattern
hasStartMarker(lines) ==
  \E i \in 1..Len(lines) :
    /\ lines[i].mark = "<"
    /\ \/ lines[i].rest = " "
       \/ lines[i].rest = "" /\ i < Len(lines)

\* ConflictDetector.hasConflictMarkers: /^<{7}\s|^={7}\s|^>{7}\s/m finds a line
\* that starts with seven marker characters followed by a whitespace character,
\* which the line break after a line that is not the last one is
hasConflictMarkers(lines) ==
  \E i \in 1..Len(lines) :
    /\ lines[i].mark \in {"<", "=", ">"}
    /\ \/ lines[i].rest = " "
       \/ lines[i].rest = "" /\ i < Len(lines)

DetectConflicts ==
  /\ "detectConflictsInContent" \notin called
  /\ conflicts' = detectConflictsInContent(content)
  /\ called' = called \cup {"detectConflictsInContent"}
  /\ UNCHANGED <<serviceVars, message, jjError, content, hasMarkers>>

HasConflictMarkers ==
  /\ "hasConflictMarkers" \notin called
  /\ hasMarkers' = hasConflictMarkers(content)
  /\ called' = called \cup {"hasConflictMarkers"}
  /\ UNCHANGED <<serviceVars, message, jjError, content, conflicts>>

\* the two functions of ConflictDetector over the contents
InitConflicts ==
  /\ Constructed
  /\ autoSyncEnabled = TRUE
  /\ obs.watch = {}
  /\ message = << >>
  /\ content \in Contents
  /\ jjError = [type |-> "", message |-> << >>]
  /\ conflicts = << >>
  /\ hasMarkers = FALSE
  /\ called = {}
NextConflicts ==
  \/ DetectConflicts
  \/ HasConflictMarkers
SpecConflicts == InitConflicts /\ [][NextConflicts]_vars

\* C34: hasConflictMarkers(content) is true exactly when
\* detectConflictsInContent(path, content) returns at least one region.
MarkersIffRegions ==
  {"detectConflictsInContent", "hasConflictMarkers"} \subseteq called
    => (hasMarkers <=> Len(conflicts) >= 1)

\* line i starts with seven marker characters and a whitespace character (a
\* line break or the first character of the rest) follows them
Spaced(lines, i) ==
  /\ lines[i].mark # ""
  /\ lines[i].rest # "x"
  /\ lines[i].rest = "" => i # Len(lines)

\* C34 (amended): whenever detectConflictsInContent returns a region whose start
\* or end marker is followed by a whitespace character, hasConflictMarkers is
\* true; and whenever hasConflictMarkers is true, some line starts with a
\* start, mid or end marker followed by a whitespace character, which need not
\* belong to a region.
MarkersWhenRegions ==
  {"detectConflictsInContent", "hasConflictMarkers"} \subseteq called
    => /\ (\E i \in DOMAIN conflicts :
             \/ Spaced(content, conflicts[i].startLine)
             \/ Spaced(content, conflicts[i].endLine)) => hasMarkers
       /\ hasMarkers => \E i \in DOMAIN content : Spaced(content, i)

\* both functions have run on a content with a region whose end marker alone
\* is followed by a whitespace character
MarkersWhenRegionsReached ==
  /\ {"detectConflictsInContent", "hasConflictMarkers"} \subseteq called
  /\ \E i \in DOMAIN conflicts :
       /\ ~Spaced(content, conflicts[i].startLine)
       /\ Spaced(content, conflicts[i].endLine)
  /\ hasMarkers

\* line s is a start marker that is not inside a region opened before it
RECURSIVE Opens(_, _)
Opens(lines, s) ==
  /\ lines[s].mark = "<"
  /\ \A t \in 1..(s - 1) :
       Opens(lines, t) => \E k \in (t + 1)..(s - 1) : lines[k].mark = ">"
\* the regions from such a start marker to the first end marker after it
Regions(lines) ==
  {r \in [startLine : DOMAIN lines, endLine : DOMAIN lines] :
     /\ Opens(lines, r.startLine)
     /\ r.startLine < r.endLine
     /\ lines[r.endLine].mark = ">"
     /\ \A k \in (r.startLine + 1)..(r.endLine - 1) : lines[k].mark # ">"}

\* C35: detectConflictsInContent reports exactly the regions (s, e), 1-based and
\* inclusive, where s is a start-marker line that is not inside an open region
\* and e is the first end-marker line after s: none for a start marker without
\* a later end marker, and one, from the first start marker, for nested markers.
RegionsExact ==
  "detectConflictsInContent" \in called
    => /\ {conflicts[i] : i \in DOMAIN conflicts} = Regions(content)
       /\ Len(conflicts) = Cardinality(Regions(content))

\* C36: a processQueue call that finds a run between the guard and the finally
\* block returns at once, without a VCS call and without touching the run, the
\* pending set, the retry counter or the status; a run begins only when none is
\* in flight, and the flag is set exactly while one is.
OneRunInFlight ==
  [][/\ \A t \in BagToSet(timeouts) :
          (FireOnce(t) /\ pq.pc # "idle")
            => UNCHANGED <<pq, isProcessing, changeQueue, retryCount, status>>
     /\ (pq' # pq /\ pq'.pc = "hasChanges") => (pq.pc = "idle" /\ ~isProcessing)
     /\ isProcessing' <=> (pq'.pc # "idle")]_vars

\* a run is awaiting a VCS call while the timeouts of 'auto-commit' and of
\* 'auto-commit-retry' are both due and files are pending
OneRunInFlightReached ==
  /\ pq.pc # "idle"
  /\ isProcessing
  /\ ~paused
  /\ changeQueue # {}
  /\ \E t, u \in BagToSet(timeouts) :
       /\ Due(t) /\ t.key = AUTO_COMMIT
       /\ Due(u) /\ u.key = AUTO_COMMIT_RETRY

\* C37: a file id that an accepted queueChange put into the pending set while
\* a run started by the 'auto-commit' timer was in flight is still in the
\* pending set when that run has returned, so that the handler run its own
\* timer starts finds it.
QueuedDuringRunKept ==
  [][(/\ pq.pc # "idle" /\ pq'.pc = "idle"
      /\ pq.key = AUTO_COMMIT
      /\ ~obs.burst.started
      /\ autoSyncEnabled)
       => obs.burst.files \subseteq changeQueue']_vars

\* C38: in a cycle whose commit succeeded and whose pushes so far all failed
\* with NETWORK_ERROR, a retry run to which hasUncommittedChanges reports false
\* goes on to call push.
RetryPushesAgain ==
  [][(/\ pq.key = AUTO_COMMIT_RETRY
      /\ obs.cyc.open /\ obs.cyc.ok /\ obs.cyc.pushed
      /\ PQHasChanges(FALSE))
       => pq'.pc = "push"]_vars

\* C39: RetryState is within 0..MAX_RETRY_COUNT+1, and it is 0 whenever the
\* pending set is empty and no processQueue run is in flight.
RetryBudgetRestored ==
  /\ retryCount \in 0..(MAX_RETRY_COUNT + 1)
  /\ (changeQueue = {} /\ pq.pc = "idle" /\ ~isProcessing) => retryCount = 0

\* C40: while the status is the LocalOnly that initialize left, no step of the
\* quiet-period handler, of pull or of performFullSync calls fetch or push or
\* sets the status to Enabled or Offline.
LocalOnlySkipsRemote ==
  [][SyncStatusOf(status) = "LocalOnly"
       => /\ SyncStatusOf(status') \notin {"Enabled", "Offline"}
          /\ ~(tp # "fetch" /\ tp' = "fetch")
          /\ ~(pq.pc # "push" /\ pq'.pc = "push")
          /\ \A i \in 1..MaxManual :
               /\ ~(ms[i] # "fetch" /\ ms'[i] = "fetch")
               /\ ~(ms[i] # "push" /\ ms'[i] = "push")]_vars

============================================================================
